---- MODULE Spec2Model ----
(***************************************************************************)
(* Model of the Scene component of emotional-canvas (src/ui-helpers.js):   *)
(* the channel-key colour model, the pointer-hold creation session, the   *)
(* preview object, the spawned cubes, the arrow-key camera orbit and the   *)
(* distance-driven audio volume.                                           *)
(*                                                                         *)
(* Time is performance.now() in whole milliseconds.  Sizes are rationals:  *)
(* a size is stored as its numerator over SizeDen (= maxHold), a roundness *)
(* as its numerator over RoundDen (= 2 * maxHold * maxHold), so that the   *)
(* code's divisions are exact.  An opacity is a pair <<num, den>>.  The     *)
(* camera is held in spherical coordinates about the target, angles in     *)
(* milliradians and the radius in whole world units; a volume is stored as *)
(* its numerator over VolumeDen.                                           *)
(*                                                                         *)
(* React state is modelled as rendered after every handler.  The mouse    *)
(* handlers are closures created by a useEffect with the dependency list  *)
(* [camera, gl, isHolding, holdStartTime, holdStartPosition,              *)
(* maxRoundnessAchieved]; the variable "handler" holds the values those   *)
(* closures captured when the effect last ran.  The useFrame callback and *)
(* the key handlers (functional updaters) always see the current state.   *)
(*                                                                         *)
(* Frames run at the display's refresh rate, so at the clock's resolution *)
(* of the model the clock moves only from one frame to the next: an input *)
(* event reads the time of the frame before it.                           *)
(***************************************************************************)
EXTENDS Integers, Sequences, FiniteSets, TLC

VARIABLES
    now,                   \* performance.now(), ms
    globalRGB,             \* committed colour [r, g, b, a]
    keyHoldState,          \* channel key -> [isHolding, startTime]
    arrowKeys,             \* [up, down, left, right]
    isSpacebarHeld,
    isHolding,             \* pointer-hold session active
    holdStartTime,
    holdStartPosition,     \* Null or the anchor <<x, y, z>>
    maxRoundnessAchieved,  \* numerator over RoundDen
    handler,               \* what the registered mouse handlers captured
    previewRef,            \* previewRef.current: Null or <<the preview mesh>>
    spawnedCubes,          \* sequence of spawned meshes
    pills,                 \* the values the RGBA pills show
    camera,                \* camera.position - target: [radius, phi, theta]
    volume,                \* gain of the positional audio, over VolumeDen
    inputs,                \* number of input events delivered so far
    pressedAt,             \* history: when each channel key went down, or Up
    rounded,               \* history: <<d, roundness>> of this session's last
                           \* frame with the modifier held, or <<>>
    previewEnded,          \* history: previewRef.current is the mesh of a
                           \* session that a pointer-up has ended
    frameReads,            \* history: the clock readings the updates of the
                           \* last frame worked with
    last                   \* history: the last step taken

vars == <<now, globalRGB, keyHoldState, arrowKeys, isSpacebarHeld, isHolding,
          holdStartTime, holdStartPosition, maxRoundnessAchieved, handler,
          previewRef, spawnedCubes, pills, camera, volume, inputs, pressedAt,
          rounded, previewEnded, frameReads, last>>

(* ----------------------------- bounds ---------------------------------- *)
MaxTicks == 5
MaxInputs == 3
MaxSessionInputs == 4
MaxCubes == 2
MaxCameraInputs == 3
MaxDrift == 1

MaxNow == MaxTicks * 750

\* the time between two frames, ms
Deltas == {0, 750}
\* the time between the frame's own clock reading and a later reading of
\* performance.now() inside the callback, ms
Skews == {0, 1}

(* --------------------------- program constants ------------------------- *)
maxHold == 3000
minSize == 5
maxSize == 50
\* useFrame: rotationSpeed = 1.2 rad/s, in tenths of a milliradian per ms
rotationSpeed == 12
\* the bounds of the polar angle, 0.1 and Math.PI * 0.495, in milliradians
minPolar == 100
maxPolar == 1555
\* the distances the volume is mapped between
minDistance == 40
maxDistance == 1000
\* volume = 1.0 - normalizedDistance * 0.9, kept within 0.2 .. 1.0, in tenths
falloff == 9
minVolume == 2
maxVolume == 10

\* null, for holdStartPosition (a point) and previewRef.current (<<mesh>>)
Null == <<>>
\* pressedAt of a key that is up
Up == 0 - 1

ChannelKeys == {"1", "2", "3", "4"}
ArrowKeyNames == {"ArrowUp", "ArrowDown", "ArrowLeft", "ArrowRight"}
SpaceKeys == {" ", "Spacebar"}
\* the keys the environment presses: every channel key, one arrow key of each
\* axis and the modifier
Keys == ChannelKeys \cup {"ArrowUp", "ArrowLeft"} \cup {" "}
SessionKeys == {"1", "4", " "}

\* results of the raycast at pointer-down (water hit, plane hit, origin fallback)
Anchors == {<<0, 0, 0>>, <<40, 0, -30>>}
Buttons == {0, 2}

\* the radii OrbitControls' zoom leaves the camera at (minDistance .. maxDistance)
Distances == {40, 41, 520, 999, 1000}

SizeDen == maxHold
RoundDen == 2 * maxHold * maxHold

Min(a, b) == IF a <= b THEN a ELSE b
Max(a, b) == IF a >= b THEN a ELSE b

\* Math.floor(p / q) for q > 0
Floor(p, q) == p \div q

\* JavaScript's % : the result takes the sign of the dividend
JsMod(a, m) == IF a >= 0 THEN a % m ELSE -((-a) % m)

channelOf(key) ==
    CASE key = "1" -> "r"
      [] key = "2" -> "g"
      [] key = "3" -> "b"
      [] key = "4" -> "a"

keyOf(ch) ==
    CASE ch = "r" -> "1"
      [] ch = "g" -> "2"
      [] ch = "b" -> "3"
      [] ch = "a" -> "4"

Channels == {"r", "g", "b", "a"}

(* ------------------------- colour-channel model ------------------------ *)
\* updateRGBDisplay: Math.floor((holdDuration / maxHold) * 255)
displayColorChange(holdDuration) == Floor(holdDuration * 255, maxHold)

\* updateRGBDisplay: the preview value of one channel
previewValue(ch, rgb, khs, t) ==
    IF khs[keyOf(ch)].isHolding
    THEN JsMod(rgb[ch] + displayColorChange(t - khs[keyOf(ch)].startTime), 256)
    ELSE rgb[ch]

updateRGBDisplay(rgb, khs, t) == [ch \in Channels |-> previewValue(ch, rgb, khs, t)]

\* a release that clamps the duration, which the display does not
keyUpColorChangeClamped(holdDuration) == Floor(Min(holdDuration, maxHold) * 255, maxHold)

\* handleKeyUp: Math.floor((holdDuration / maxHold) * 255)
keyUpColorChange(holdDuration) == Floor(holdDuration * 255, maxHold)

\* a commit that clamps at 255 instead of wrapping
commitChannelClamp(v, colorChange) == Min(v + colorChange, 255)

\* a commit that forgets the modulo
commitChannelNoWrap(v, colorChange) == v + colorChange

\* handleKeyUp: newRGB[channel] = (currentRGB[channel] + colorChange) % 256
commitChannel(v, colorChange) == JsMod(v + colorChange, 256)

\* an updater that writes the released key's new value to every channel
keyUpRGBAll(currentRGB, key, colorChange) ==
    [ch \in Channels |-> JsMod(currentRGB[channelOf(key)] + colorChange, 256)]

\* handleKeyUp: the setGlobalRGB updater
keyUpRGB(currentRGB, key, colorChange) ==
    [currentRGB EXCEPT ![channelOf(key)] = commitChannel(@, colorChange)]

\* an updater without the isHolding guard: every repeat restarts the hold
keyDownHoldRestart(prev, t) == [isHolding |-> TRUE, startTime |-> t]

\* handleKeyDown: the setKeyHoldState updater, for one key's hold state
keyDownHold(prev, t) ==
    IF ~prev.isHolding THEN [isHolding |-> TRUE, startTime |-> t] ELSE prev

(* ------------------------ creation parameter model --------------------- *)
\* useFrame: currentSize = minSize + (maxSize - minSize) * min(d, maxHold) / maxHold
frameCurrentSize(holdDuration) ==
    minSize * maxHold + (maxSize - minSize) * Min(holdDuration, maxHold)

\* a roundness that keeps growing with the unclamped hold duration
frameCurrentRoundnessUnclamped(holdDuration) ==
    frameCurrentSize(holdDuration) * holdDuration

\* useFrame: currentRoundness = (currentSize / 2) * min(d, maxRoundnessHold) / maxRoundnessHold
frameCurrentRoundness(holdDuration) ==
    frameCurrentSize(holdDuration) * Min(holdDuration, maxHold)

\* a committed size that keeps growing with the unclamped hold duration
mouseUpSizeUnclamped(holdDuration) ==
    minSize * maxHold + (maxSize - minSize) * holdDuration

\* handleMouseUp: size = minSize + (maxSize - minSize) * min(d, maxHold) / maxHold
mouseUpSize(holdDuration) ==
    minSize * maxHold + (maxSize - minSize) * Min(holdDuration, maxHold)

\* a pointer-up that commits no roundness
mouseUpRoundnessNone(h) == 0

\* handleMouseUp: roundness = maxRoundnessAchieved (of the handler's closure)
mouseUpRoundness(h) == h.maxRoundnessAchieved

\* size / 2 in roundness units
HalfSize(size) == size * maxHold

\* a geometry that is a plain box whatever the roundness
geometryOfPlain(size, roundness) ==
    [shape |-> "BoxGeometry", size |-> size, segments |-> 0, radius |-> 0]

\* roundness > 0 ? RoundedBoxGeometry(size, size, size, 8, min(roundness, size/2))
\*               : BoxGeometry(size, size, size)
geometryOf(size, roundness) ==
    IF roundness > 0
    THEN [shape |-> "RoundedBoxGeometry", size |-> size, segments |-> 8,
          radius |-> Min(roundness, HalfSize(size))]
    ELSE [shape |-> "BoxGeometry", size |-> size, segments |-> 0, radius |-> 0]

\* an object centred on its anchor
raisedYFlat(position, size) == position[2] * 2 * SizeDen

\* position.y + size / 2, as a numerator over 2 * SizeDen
raisedY(position, size) == position[2] * 2 * SizeDen + size

\* spawnCube, as the closure that captured the colour rgb runs it at time t
spawnCube(position, size, roundness, rgb, t) ==
    [geometry |-> geometryOf(size, roundness),
     size |-> size,
     roundness |-> roundness,
     color |-> <<rgb.r, rgb.g, rgb.b>>,
     opacity |-> <<rgb.a, 255>>,
     x |-> position[1], y |-> raisedY(position, size), z |-> position[3],
     baseY |-> raisedY(position, size),
     spawnTime |-> t,
     cubeTime |-> 0]

\* an animation that moves the rest height of the cubes along
animateCubesRebase(cubes, time) ==
    [i \in DOMAIN cubes |->
        [cubes[i] EXCEPT !.cubeTime = time - cubes[i].spawnTime,
                         !.baseY = cubes[i].baseY + (time - cubes[i].spawnTime)]]

\* useFrame: cubeTime = time - cube.userData.spawnTime for every spawned cube;
\* it alone drives position.y (baseY + sin(cubeTime) * 20), rotation.x and
\* rotation.z
animateCubes(cubes, time) ==
    [i \in DOMAIN cubes |-> [cubes[i] EXCEPT !.cubeTime = time - cubes[i].spawnTime]]

\* useFrame: the preview mesh after the "Update preview" block
previewMesh(position, currentSize, currentRoundness, rgb) ==
    [geometry |-> geometryOf(currentSize, currentRoundness),
     size |-> currentSize,
     roundness |-> currentRoundness,
     color |-> <<rgb.r, rgb.g, rgb.b>>,
     opacity |-> <<rgb.a, 2 * 255>>,
     x |-> position[1], y |-> raisedY(position, currentSize), z |-> position[3]]

(* ------------------------------ preview model ------------------------- *)
\* a preview whose roundness falls back to the initial 0 without the modifier
framePreviewRoundnessReset(spaceHeld, maxR, holdDuration) ==
    IF spaceHeld THEN frameCurrentRoundness(holdDuration) ELSE 0

\* useFrame: currentRoundness, from the formula while the modifier is held and
\* from maxRoundnessAchieved otherwise
framePreviewRoundness(spaceHeld, maxR, holdDuration) ==
    IF spaceHeld THEN frameCurrentRoundness(holdDuration) ELSE maxR

\* a maximum that follows the formula whether or not the modifier is held
frameMaxRoundnessAlways(spaceHeld, prev, holdDuration) ==
    Max(prev, frameCurrentRoundness(holdDuration))

\* useFrame: setMaxRoundnessAchieved(prev => Math.max(prev, currentRoundness)),
\* called only while the modifier is held
frameMaxRoundness(spaceHeld, prev, holdDuration) ==
    IF spaceHeld THEN Max(prev, frameCurrentRoundness(holdDuration)) ELSE prev

\* a frame that leaves the preview of an ended session in the scene
framePreviewIdleKept(isH, ref) == ref

\* useFrame: else if (!isHolding && previewRef.current) { remove, dispose,
\* previewRef.current = null }
framePreviewIdle(isH, ref) == IF ~isH THEN Null ELSE ref

(* ---------------------------- camera and audio ------------------------- *)
VolumeDen == maxVolume * (maxDistance - minDistance)

\* a volume that follows the mapping down to 0.1
audioVolumeUnfloored(distance) ==
    LET normalizedDistance ==
            Max(0, Min(maxDistance - minDistance, distance - minDistance))
    IN Min(VolumeDen, VolumeDen - falloff * normalizedDistance)

\* useFrame: the argument of setVolume for a camera at the given distance from
\* the target; normalizedDistance is a numerator over maxDistance - minDistance
audioVolume(distance) ==
    LET normalizedDistance ==
            Max(0, Min(maxDistance - minDistance, distance - minDistance))
        vol == VolumeDen - falloff * normalizedDistance
    IN Max(minVolume * (maxDistance - minDistance), Min(VolumeDen, vol))

\* a polar angle that is not kept within its bounds
clampPhiOff(phi) == phi

\* Math.max(0.1, Math.min(Math.PI * 0.495, phi))
clampPhi(phi) == Max(minPolar, Min(maxPolar, phi))

\* useFrame: the offset of the camera from the target after the arrow keys
\* turned it for delta ms (theta is kept up to whole turns)
orbit(cam, keys, delta) ==
    IF ~(keys.left \/ keys.right \/ keys.up \/ keys.down)
    THEN cam
    ELSE LET turn == (rotationSpeed * delta) \div 10
             theta1 == IF keys.left THEN cam.theta - turn ELSE cam.theta
             theta2 == IF keys.right THEN theta1 + turn ELSE theta1
             phi1 == IF keys.up THEN clampPhi(cam.phi - turn) ELSE cam.phi
             phi2 == IF keys.down THEN clampPhi(phi1 + turn) ELSE phi1
         IN [radius |-> cam.radius, phi |-> phi2, theta |-> theta2]

(* ------------------------ the mouse handlers' closure ------------------ *)
Capture(isH, t, pos, maxR, rgb) ==
    [isHolding |-> isH, holdStartTime |-> t, holdStartPosition |-> pos,
     maxRoundnessAchieved |-> maxR, globalRGB |-> rgb]

\* the "Mouse handlers" useEffect after a render with the given state: it runs
\* again only when one of its dependencies changed (fresh: holdStartPosition
\* was set to a newly allocated Vector3)
mouseEffect(isH, t, pos, maxR, rgb, fresh) ==
    IF \/ fresh
       \/ isH # handler.isHolding
       \/ t # handler.holdStartTime
       \/ maxR # handler.maxRoundnessAchieved
    THEN Capture(isH, t, pos, maxR, rgb)
    ELSE handler

(* -------------------------------- history ------------------------------ *)
\* kind: the handler that ran; key: its key; d: the hold duration it read;
\* held: whether it found its hold active; v: the channel's committed value
\* before it; k: the colour delta it computed; since: pressedAt of its key
Step(kind, key, d, held, v, k, since) ==
    [kind |-> kind, key |-> key, d |-> d, held |-> held, v |-> v, k |-> k,
     since |-> since]

Other(kind, key, d, held) == Step(kind, key, d, held, 0, 0, Up)

(* ------------------------------- initial state ------------------------- *)
Init ==
    /\ now = 0
    /\ globalRGB = [r |-> 255, g |-> 255, b |-> 255, a |-> 255]
    /\ keyHoldState = [k \in ChannelKeys |-> [isHolding |-> FALSE, startTime |-> 0]]
    /\ arrowKeys = [up |-> FALSE, down |-> FALSE, left |-> FALSE, right |-> FALSE]
    /\ isSpacebarHeld = FALSE
    /\ isHolding = FALSE
    /\ holdStartTime = 0
    /\ holdStartPosition = Null
    /\ maxRoundnessAchieved = 0
    /\ handler = Capture(FALSE, 0, Null, 0, globalRGB)
    /\ previewRef = Null
    /\ spawnedCubes = <<>>
    /\ pills = updateRGBDisplay(globalRGB, keyHoldState, now)
    \* camera.position.set(30, 50, 200) about the target (0, 10, 0): the offset
    \* (30, 40, 200), of length 206.2, polar angle 1.375 and azimuth 0.149
    /\ camera = [radius |-> 206, phi |-> 1375, theta |-> 149]
    /\ volume = VolumeDen
    /\ inputs = 0
    /\ pressedAt = [k \in ChannelKeys |-> Up]
    /\ rounded = <<>>
    /\ previewEnded = FALSE
    /\ frameReads = [frame |-> 0, display |-> 0, preview |-> 0]
    /\ last = Other("init", "", 0, FALSE)

(* --------------------------------- actions ----------------------------- *)
arrowField(key) ==
    CASE key = "ArrowUp" -> "up"
      [] key = "ArrowDown" -> "down"
      [] key = "ArrowLeft" -> "left"
      [] key = "ArrowRight" -> "right"

\* handleKeyDown
KeyDown(key) ==
    /\ inputs' = inputs + 1
    /\ arrowKeys' = IF key \in ArrowKeyNames
                    THEN [arrowKeys EXCEPT ![arrowField(key)] = TRUE]
                    ELSE arrowKeys
    /\ isSpacebarHeld' = IF key \in SpaceKeys THEN TRUE ELSE isSpacebarHeld
    /\ keyHoldState' =
         IF key \in ChannelKeys
         THEN [keyHoldState EXCEPT ![key] = keyDownHold(@, now)]
         ELSE keyHoldState
    /\ pressedAt' =
         IF key \in ChannelKeys /\ pressedAt[key] = Up
         THEN [pressedAt EXCEPT ![key] = now]
         ELSE pressedAt
    /\ last' = Other("keydown", key, 0,
                     key \in ChannelKeys /\ keyHoldState[key].isHolding)
    /\ UNCHANGED <<now, globalRGB, isHolding, holdStartTime, holdStartPosition,
                   maxRoundnessAchieved, handler, previewRef, spawnedCubes, pills,
                   camera, volume, rounded, previewEnded, frameReads>>

\* handleKeyUp
KeyUp(key) ==
    /\ inputs' = inputs + 1
    /\ arrowKeys' = IF key \in ArrowKeyNames
                    THEN [arrowKeys EXCEPT ![arrowField(key)] = FALSE]
                    ELSE arrowKeys
    /\ isSpacebarHeld' = IF key \in SpaceKeys THEN FALSE ELSE isSpacebarHeld
    /\ IF key \in ChannelKeys
       THEN LET holdDuration == now - keyHoldState[key].startTime
                colorChange == keyUpColorChange(holdDuration)
                ch == channelOf(key)
            IN /\ globalRGB' = keyUpRGB(globalRGB, key, colorChange)
               /\ keyHoldState' = [keyHoldState EXCEPT
                                     ![key] = [isHolding |-> FALSE, startTime |-> 0]]
               /\ pressedAt' = [pressedAt EXCEPT ![key] = Up]
               /\ last' = Step("keyup", key, holdDuration,
                               keyHoldState[key].isHolding, globalRGB[ch],
                               colorChange, pressedAt[key])
       ELSE /\ UNCHANGED <<globalRGB, keyHoldState, pressedAt>>
            /\ last' = Other("keyup", key, 0, FALSE)
    /\ UNCHANGED <<now, isHolding, holdStartTime, holdStartPosition,
                   maxRoundnessAchieved, handler, previewRef, spawnedCubes, pills,
                   camera, volume, rounded, previewEnded, frameReads>>

\* handleMouseDown; anchor is what the raycast resolves to
MouseDown(button, anchor) ==
    /\ inputs' = inputs + 1
    /\ last' = Other("mousedown", "", 0, button = 0)
    /\ IF button # 0
       THEN UNCHANGED <<isHolding, holdStartTime, holdStartPosition,
                        maxRoundnessAchieved, handler, rounded>>
       ELSE /\ isHolding' = TRUE
            /\ holdStartTime' = now
            /\ maxRoundnessAchieved' = 0
            /\ holdStartPosition' = anchor
            /\ handler' = mouseEffect(TRUE, now, anchor, 0, globalRGB, TRUE)
            /\ rounded' = <<>>
    /\ UNCHANGED <<now, globalRGB, keyHoldState, arrowKeys, isSpacebarHeld,
                   previewRef, spawnedCubes, pills, camera, volume, pressedAt,
                   previewEnded, frameReads>>

\* handleMouseUp, run by the closure the effect registered last
MouseUp(button) ==
    /\ inputs' = inputs + 1
    /\ IF button # 0 \/ ~handler.isHolding
       THEN /\ UNCHANGED <<isHolding, handler, spawnedCubes, previewEnded>>
            /\ last' = Other("mouseup", "", 0, FALSE)
       ELSE LET holdDuration == now - handler.holdStartTime
                size == mouseUpSize(holdDuration)
                roundness == mouseUpRoundness(handler)
            IN /\ isHolding' = FALSE
               /\ IF handler.holdStartPosition # Null
                  THEN /\ Len(spawnedCubes) < MaxCubes
                       /\ spawnedCubes' = Append(spawnedCubes,
                              spawnCube(handler.holdStartPosition, size, roundness,
                                        handler.globalRGB, now))
                  ELSE UNCHANGED spawnedCubes
               /\ handler' = mouseEffect(FALSE, holdStartTime, holdStartPosition,
                                         maxRoundnessAchieved, globalRGB, FALSE)
               /\ previewEnded' = (previewRef # Null)
               /\ last' = Other("mouseup", "", holdDuration, TRUE)
    /\ UNCHANGED <<now, globalRGB, keyHoldState, arrowKeys, isSpacebarHeld,
                   holdStartTime, holdStartPosition, maxRoundnessAchieved,
                   previewRef, pills, camera, volume, pressedAt, rounded,
                   frameReads>>

\* the useFrame callback of the frame that runs delta ms after the previous
\* one; the clock only moves between frames (delta = 0: the clock's resolution
\* hides the time since the previous frame).  The camera and the animation
\* work with the reading of state.clock the frame loop took (delta,
\* elapsedTime); updateRGBDisplay and the preview block each call
\* performance.now(), the latter skew ms after the frame's reading.
Frame(delta, skew) ==
    /\ now + delta + skew <= MaxNow
    /\ (now + delta + skew) % 750 <= MaxDrift
    /\ now' = now + delta + skew
    /\ frameReads' =
         [frame |-> now + delta,
          display |-> now + delta,
          preview |-> IF isHolding /\ holdStartPosition # Null
                      THEN now' ELSE now + delta]
    /\ volume' = audioVolume(camera.radius)
    /\ camera' = orbit(camera, arrowKeys, delta)
    /\ spawnedCubes' = animateCubes(spawnedCubes, now + delta)
    /\ pills' = updateRGBDisplay(globalRGB, keyHoldState, now + delta)
    /\ IF isHolding /\ holdStartPosition # Null
       THEN LET holdDuration == now' - holdStartTime
                currentSize == frameCurrentSize(holdDuration)
                currentRoundness ==
                    framePreviewRoundness(isSpacebarHeld, maxRoundnessAchieved,
                                          holdDuration)
            IN /\ maxRoundnessAchieved' =
                     frameMaxRoundness(isSpacebarHeld, maxRoundnessAchieved,
                                       holdDuration)
               \* the mesh of previewRef.current is created only if there is
               \* none, and updated in place otherwise
               /\ previewRef' = <<previewMesh(holdStartPosition, currentSize,
                                              currentRoundness, globalRGB)>>
               /\ previewEnded' = (previewRef # Null /\ previewEnded)
               /\ rounded' = IF isSpacebarHeld
                             THEN <<holdDuration, currentRoundness>>
                             ELSE rounded
               /\ last' = Other("frame", "", holdDuration, TRUE)
       ELSE /\ previewRef' = framePreviewIdle(isHolding, previewRef)
            /\ previewEnded' = (previewRef' # Null /\ previewEnded)
            /\ UNCHANGED <<maxRoundnessAchieved, rounded>>
            /\ last' = Other("frame", "", 0, FALSE)
    /\ handler' = mouseEffect(isHolding, holdStartTime, holdStartPosition,
                              maxRoundnessAchieved', globalRGB, FALSE)
    /\ UNCHANGED <<globalRGB, keyHoldState, arrowKeys, isSpacebarHeld, isHolding,
                   holdStartTime, holdStartPosition, inputs, pressedAt>>

\* OrbitControls' zoom (rotation and panning are disabled): the wheel moves the
\* camera along its offset to a distance within minDistance .. maxDistance
Dolly(radius) ==
    /\ inputs' = inputs + 1
    /\ camera' = [camera EXCEPT !.radius = radius]
    /\ last' = Other("dolly", "", 0, FALSE)
    /\ UNCHANGED <<now, globalRGB, keyHoldState, arrowKeys, isSpacebarHeld,
                   isHolding, holdStartTime, holdStartPosition,
                   maxRoundnessAchieved, handler, previewRef, spawnedCubes, pills,
                   volume, pressedAt, rounded, previewEnded, frameReads>>

\* every handler, on any input, within the budget of input events
Next ==
    \/ /\ inputs < MaxInputs
       /\ \E key \in Keys : KeyDown(key)
    \/ /\ inputs < MaxInputs
       /\ \E key \in Keys : KeyUp(key)
    \/ /\ inputs < MaxInputs
       /\ \E button \in Buttons, anchor \in Anchors : MouseDown(button, anchor)
    \/ /\ inputs < MaxInputs
       /\ \E button \in Buttons : MouseUp(button)
    \/ \E delta \in Deltas : Frame(delta, 0)

Spec == Init /\ [][Next]_vars

\* a key that is down, as the handlers recorded it
IsDown(key) ==
    IF key \in ChannelKeys THEN keyHoldState[key].isHolding ELSE isSpacebarHeld

\* creation sessions of a user who works the primary button, the modifier and
\* the channel keys of SessionKeys, every key-up following its key-down, with a
\* longer budget of input events
NextSession ==
    \/ /\ inputs < MaxSessionInputs
       /\ \E key \in SessionKeys : KeyDown(key)
    \/ /\ inputs < MaxSessionInputs
       /\ \E key \in SessionKeys : IsDown(key) /\ KeyUp(key)
    \/ /\ inputs < MaxSessionInputs
       /\ \E anchor \in Anchors : MouseDown(0, anchor)
    \/ /\ inputs < MaxSessionInputs
       /\ MouseUp(0)
    \/ \E delta \in Deltas : Frame(delta, 0)

SpecSession == Init /\ [][NextSession]_vars

\* a user who turns the camera with the arrow keys and zooms with the wheel
NextCamera ==
    \/ /\ inputs < MaxCameraInputs
       /\ \E key \in ArrowKeyNames : KeyDown(key)
    \/ /\ inputs < MaxCameraInputs
       /\ \E key \in ArrowKeyNames : KeyUp(key)
    \/ /\ inputs < MaxCameraInputs
       /\ \E radius \in Distances : Dolly(radius)
    \/ \E delta \in Deltas : Frame(delta, 0)

SpecCamera == Init /\ [][NextCamera]_vars

\* the host clock that performance.now() reads steps back by one tick between
\* two events (a clock that violates monotonicity)
ClockBack ==
    /\ now >= 750
    /\ inputs' = inputs + 1
    /\ now' = now - 750
    /\ last' = Other("clock", "", 0, FALSE)
    /\ UNCHANGED <<globalRGB, keyHoldState, arrowKeys, isSpacebarHeld, isHolding,
                   holdStartTime, holdStartPosition, maxRoundnessAchieved,
                   handler, previewRef, spawnedCubes, pills, camera, volume,
                   pressedAt, rounded, previewEnded, frameReads>>

\* creation sessions on a host whose clock may step back
NextSkew ==
    \/ NextSession
    \/ /\ inputs < MaxSessionInputs
       /\ ClockBack

SpecSkew == Init /\ [][NextSkew]_vars

\* creation sessions in which the preview block may read performance.now()
\* later than the frame loop read its clock
NextReads ==
    \/ /\ inputs < MaxSessionInputs
       /\ \E key \in SessionKeys : KeyDown(key)
    \/ /\ inputs < MaxSessionInputs
       /\ \E key \in SessionKeys : IsDown(key) /\ KeyUp(key)
    \/ /\ inputs < MaxSessionInputs
       /\ \E anchor \in Anchors : MouseDown(0, anchor)
    \/ /\ inputs < MaxSessionInputs
       /\ MouseUp(0)
    \/ \E delta \in Deltas, skew \in Skews : Frame(delta, skew)

SpecReads == Init /\ [][NextReads]_vars

(* ================================ claims =============================== *)
HoldDurations == {t * 750 : t \in 0..MaxTicks}

NewestCube == spawnedCubes[Len(spawnedCubes)]
Preview == previewRef[1]

LiveFrame == last.kind = "frame" /\ last.held
Spawned == last.kind = "mouseup" /\ last.held /\ Len(spawnedCubes) > 0
HeldKeyUp == last.kind = "keyup" /\ last.key \in ChannelKeys /\ last.held

\* 5 + 45 * min(d, 3000) / 3000, as a numerator over 3000
SizeOfClaim(d) == 5 * 3000 + 45 * (IF d < 3000 THEN d ELSE 3000)

\* C1: the preview size of a frame and the committed size at pointer-up both
\* equal 5 + 45*min(d,3000)/3000 for the hold duration d; the size is within
\* [5,50], non-decreasing in d and equal to 50 from 3000 ms on.
C1_SizeFormula ==
    /\ LiveFrame => /\ previewRef # Null
                    /\ Preview.size = SizeOfClaim(last.d)
                    /\ Preview.size >= 5 * 3000 /\ Preview.size <= 50 * 3000
                    /\ (last.d >= 3000 => Preview.size = 50 * 3000)
                    /\ \A d \in HoldDurations :
                          d <= last.d => frameCurrentSize(d) <= Preview.size
    /\ Spawned => /\ NewestCube.size = SizeOfClaim(last.d)
                  /\ NewestCube.size >= 5 * 3000 /\ NewestCube.size <= 50 * 3000
                  /\ (last.d >= 3000 => NewestCube.size = 50 * 3000)
                  /\ \A d \in HoldDurations :
                        d <= last.d => mouseUpSize(d) <= NewestCube.size

\* a hold longer than 3000 ms shown by a frame and then committed at size 50
C1_Witness ==
    /\ Spawned /\ last.d > 3000
    /\ NewestCube.size = 50 * 3000
    /\ previewRef # Null /\ Preview.size = 50 * 3000

\* C2: a key-down for a channel key that is already held leaves startTime at
\* the first press, so the value committed at key-up is the one a single hold
\* from the first press to the release commits.
C2_RepeatKeepsStart ==
    /\ \A key \in ChannelKeys :
          pressedAt[key] # Up => /\ keyHoldState[key].isHolding
                                 /\ keyHoldState[key].startTime = pressedAt[key]
    /\ (HeldKeyUp /\ last.since # Up) =>
          /\ last.d = now - last.since
          /\ globalRGB[channelOf(last.key)] =
                commitChannel(last.v, keyUpColorChange(now - last.since))

\* a repeat key-down arrives later than the first press of a held key
C2_Witness ==
    /\ last.kind = "keydown" /\ last.key \in ChannelKeys /\ last.held
    /\ now > pressedAt[last.key]
    /\ keyHoldState[last.key].startTime = pressedAt[last.key]

\* C3: a key-up for a channel key that is not held changes neither the
\* committed colour nor any hold state.
C3_UnheldKeyUpNoOp ==
    [][\A key \in ChannelKeys :
          (last'.kind = "keyup" /\ last'.key = key /\ inputs' = inputs + 1
              /\ ~keyHoldState[key].isHolding)
          => /\ globalRGB' = globalRGB
             /\ keyHoldState' = keyHoldState]_vars

\* (v + floor(min(elapsed, 3000) / 3000 * 255)) mod 256
PreviewOfClaim(v, elapsed) ==
    (v + (((IF elapsed < 3000 THEN elapsed ELSE 3000) * 255) \div 3000)) % 256

\* C4: after a frame, the pill of a held channel shows
\* (v + floor(min(now - startTime, 3000)/3000 * 255)) mod 256, whose delta never
\* exceeds 255, and the pill of a channel that is not held shows v.
C4_PreviewSaturates ==
    last.kind = "frame" =>
        \A ch \in Channels :
            pills[ch] = IF keyHoldState[keyOf(ch)].isHolding
                        THEN PreviewOfClaim(globalRGB[ch],
                                            now - keyHoldState[keyOf(ch)].startTime)
                        ELSE globalRGB[ch]

\* C5: a key-up after a hold whose delta is k commits (v + k) mod 256, wrapping
\* and never clamping; key "1" held for exactly 3000 ms from R = 255 has delta
\* 255 and commits R = 254.
C5_CommitWraps ==
    HeldKeyUp =>
        /\ globalRGB[channelOf(last.key)] = (last.v + last.k) % 256
        /\ (last.key = "1" /\ last.d = 3000 /\ last.v = 255)
              => (last.k = 255 /\ globalRGB.r = 254)

\* key "1" released after exactly 3000 ms from R = 255
C5_Witness ==
    /\ HeldKeyUp /\ last.key = "1" /\ last.d = 3000 /\ last.v = 255
    /\ globalRGB.r = 254

\* C6: the value a key-up of a held key commits is the preview value the
\* display computes for that channel at the same time from the same committed
\* value and startTime, and the key's hold state is reset to {false, 0}.
C6_CommitIsPreview ==
    HeldKeyUp =>
        LET ch == channelOf(last.key)
            before == [globalRGB EXCEPT ![ch] = last.v]
            holding == [keyHoldState EXCEPT
                          ![last.key] = [isHolding |-> TRUE, startTime |-> now - last.d]]
        IN /\ globalRGB[ch] = previewValue(ch, before, holding, now)
           /\ keyHoldState[last.key] = [isHolding |-> FALSE, startTime |-> 0]

\* a release after more than 3000 ms, right after a frame that showed the value
C6_Witness ==
    /\ HeldKeyUp /\ last.d > 3000
    /\ pills[channelOf(last.key)] = globalRGB[channelOf(last.key)]
    /\ globalRGB[channelOf(last.key)] # last.v

\* C7: the committed colour starts at (255,255,255,255) and every committed
\* channel is an integer in [0,255] in every reachable state.
C7_ChannelsInRange ==
    /\ \A ch \in Channels : globalRGB[ch] \in 0..255
    /\ last.kind = "init" => \A ch \in Channels : globalRGB[ch] = 255

\* a commit whose sum passed 255 and wrapped
C7_Witness ==
    /\ HeldKeyUp /\ last.v + last.k > 255
    /\ globalRGB[channelOf(last.key)] < last.v

\* C8: only the key-up of a channel key changes the committed colour, and it
\* changes only the released key's channel and hold state.
C8_OnlyKeyUpOnlyItsChannel ==
    [][/\ globalRGB' # globalRGB =>
             (last'.kind = "keyup" /\ last'.key \in ChannelKeys)
       /\ \A key \in ChannelKeys :
             (last'.kind = "keyup" /\ last'.key = key /\ inputs' = inputs + 1) =>
                 /\ \A ch \in Channels \ {channelOf(key)} : globalRGB'[ch] = globalRGB[ch]
                 /\ \A other \in ChannelKeys \ {key} :
                        keyHoldState'[other] = keyHoldState[other]]_vars

\* one channel key released, with a changed value, while another is still held
C8_Witness ==
    /\ HeldKeyUp /\ globalRGB[channelOf(last.key)] # last.v
    /\ \E other \in ChannelKeys \ {last.key} : keyHoldState[other].isHolding

\* C9: the object spawned at pointer-up has the colour and opacity committed
\* at that instant.
C9_SpawnUsesCommittedColor ==
    Spawned => /\ NewestCube.color = <<globalRGB.r, globalRGB.g, globalRGB.b>>
               /\ NewestCube.opacity = <<globalRGB.a, 255>>

\* (size(d) / 2) * min(d, 3000) / 3000, as a numerator over 2 * 3000 * 3000
RoundnessOfClaim(d) == SizeOfClaim(d) * (IF d < 3000 THEN d ELSE 3000)

\* C10: in a frame of an active session with the modifier held, the roundness
\* for hold duration d is (size(d)/2) * min(d,3000)/3000 and at most size(d)/2.
C10_RoundnessWhileHeld ==
    (LiveFrame /\ isSpacebarHeld) =>
        /\ Preview.roundness = RoundnessOfClaim(last.d)
        /\ Preview.roundness <= Preview.size * 3000
        /\ Preview.geometry.radius = Preview.roundness

\* a frame past 3000 ms with the modifier held: roundness is exactly size/2
C10_Witness ==
    /\ LiveFrame /\ isSpacebarHeld /\ last.d > 3000
    /\ Preview.roundness = Preview.size * 3000
    /\ Preview.geometry.shape = "RoundedBoxGeometry"

\* C11: once the modifier is released during a session, every later frame of
\* that session shows the preview with exactly the roundness it had when the
\* modifier was released, the one of the last frame that ran with the modifier
\* held, however much longer the hold lasts.
C11_FrozenAfterRelease ==
    (LiveFrame /\ ~isSpacebarHeld /\ rounded # <<>>) =>
        /\ previewRef # Null
        /\ Preview.roundness = rounded[2]
        /\ Preview.roundness = maxRoundnessAchieved

\* a frame later in the hold than the last one with the modifier held, where
\* the formula would give more
C11_Witness ==
    /\ LiveFrame /\ ~isSpacebarHeld /\ rounded # <<>>
    /\ rounded[2] > 0
    /\ last.d > rounded[1]
    /\ RoundnessOfClaim(last.d) > Preview.roundness

C14_ZeroHold ==
    [][(last'.kind = "mouseup" /\ last'.held /\ last'.d = 0) =>
          /\ Len(spawnedCubes') = Len(spawnedCubes) + 1
          /\ SubSeq(spawnedCubes', 1, Len(spawnedCubes)) = spawnedCubes
          /\ LET cube == spawnedCubes'[Len(spawnedCubes')]
             IN /\ cube.size = 5 * 3000
                /\ cube.roundness = 0
                /\ cube.geometry.shape = "BoxGeometry"
                /\ cube.geometry.size = 5 * 3000
                /\ cube.x = holdStartPosition[1]
                /\ cube.z = holdStartPosition[3]
                /\ cube.y = holdStartPosition[2] * 2 * 3000 + 5 * 3000]_vars

\* a pointer-down released at once, the modifier never held
C14_Witness ==
    /\ Spawned /\ last.d = 0 /\ now = holdStartTime
    /\ ~isSpacebarHeld /\ rounded = <<>>
    /\ Len(spawnedCubes) = 1
    /\ NewestCube.size = 5 * 3000

\* C15: in every reachable state there is at most one preview object, and a
\* preview object exists if and only if a pointer-hold session is active.
C15_PreviewIffSession ==
    /\ Len(previewRef) <= 1
    /\ (previewRef # Null) <=> isHolding

\* C15, amended: there is at most one preview object in every reachable state,
\* and after every frame tick a preview object exists if and only if a
\* pointer-hold session is active; between a pointer event and the next frame
\* tick the preview still is what the previous frame left.
C15_PreviewIffSessionAfterFrame ==
    /\ Len(previewRef) <= 1
    /\ last.kind = "frame" => ((previewRef # Null) <=> isHolding)
    /\ last.kind = "mousedown" /\ last.held => isHolding
    /\ last.kind = "mouseup" /\ last.held => ~isHolding

\* a frame that found the session ended and tore the preview down
C15_Witness ==
    /\ last.kind = "frame" /\ ~isHolding /\ previewRef = Null
    /\ Len(spawnedCubes) > 0
    /\ holdStartPosition # Null

\* C16: whatever arrow keys are held over whatever frames, the polar angle of
\* the camera about the target stays within [0.1, pi * 0.495] (100 to 1555
\* milliradians), where it starts.
C16_PolarAngleInRange ==
    /\ camera.phi >= 100
    /\ camera.phi <= 1555

\* the up key held over frames that would have carried the angle below 0.1
C16_Witness ==
    /\ last.kind = "frame" /\ arrowKeys.up /\ ~arrowKeys.down
    /\ camera.phi = 100
    /\ now >= 2 * 750

\* C17: the volume a frame applies is 1.0 at a camera distance of exactly 40
\* and below, and 0.1 at a camera distance of exactly 1000 and beyond.
C17_VolumeEndpoints ==
    last.kind = "frame" =>
        /\ camera.radius <= 40 => volume = VolumeDen
        /\ camera.radius >= 1000 => volume * 10 = VolumeDen

\* distances within, at the ends of and outside the range the zoom allows
SampleDistances == {0, 39, 40, 41, 206, 520, 893, 894, 999, 1000, 1001, 2000}

\* clamp(1.0 - clamp((d - 40) / 960, 0, 1) * 0.9, 0.2, 1.0), as a numerator over
\* 9600
VolumeOfClaim(d) ==
    LET n == IF d < 40 THEN 0 ELSE IF d > 1000 THEN 960 ELSE d - 40
        v == 9600 - 9 * n
    IN IF v < 1920 THEN 1920 ELSE IF v > 9600 THEN 9600 ELSE v

C19_EndedPreviewTornDown ==
    last.kind = "frame" => (previewRef = Null \/ ~previewEnded)

\* C20: Max-Roundness-Achieved is set to 0 by a primary pointer-down and
\* decreases in no other step; it increases only in frames of an active
\* session with the modifier held; key-downs and key-ups of the modifier and
\* of the channel keys, and pointer-ups, leave it as it is.
C20_MaxRoundnessOnlyResetByPointerDown ==
    [][/\ maxRoundnessAchieved' < maxRoundnessAchieved =>
             /\ last'.kind = "mousedown" /\ last'.held
             /\ maxRoundnessAchieved' = 0
       /\ maxRoundnessAchieved' > maxRoundnessAchieved =>
             /\ last'.kind = "frame" /\ last'.held
             /\ isHolding /\ isSpacebarHeld
       /\ last'.kind \in {"keydown", "keyup", "mouseup"} =>
             maxRoundnessAchieved' = maxRoundnessAchieved
       /\ (last'.kind = "mousedown" /\ last'.held) =>
             maxRoundnessAchieved' = 0]_vars

\* a session that rounded its preview, after the modifier was released and the
\* pointer-up ended it
C20_Witness ==
    /\ last.kind = "mouseup" /\ last.held
    /\ ~isSpacebarHeld
    /\ maxRoundnessAchieved > 0
    /\ last.d > rounded[1]

\* C21: in a frame of an active pointer session during which a channel key is
\* held, the colour and opacity of the preview object come from the
\* per-channel preview values of that frame (the ones the pills show), not
\* from the committed values.
C21_PreviewUsesPreviewValues ==
    (LiveFrame /\ \E key \in ChannelKeys : keyHoldState[key].isHolding) =>
        /\ previewRef # Null
        /\ Preview.color = <<pills.r, pills.g, pills.b>>
        /\ Preview.opacity = <<pills.a, 2 * 255>>

\* C22: when the host clock steps back so that a hold duration is negative,
\* the formulas treat it as 0: no preview or committed size is below 5, no
\* roundness is negative, no colour delta is negative, and the committed and
\* the preview channel values stay within 0..255.
C22_NegativeDurationsClamped ==
    /\ LiveFrame => (Preview.size >= 5 * 3000 /\ Preview.roundness >= 0)
    /\ Spawned => (NewestCube.size >= 5 * 3000 /\ NewestCube.roundness >= 0)
    /\ HeldKeyUp => last.k >= 0
    /\ \A ch \in Channels : /\ globalRGB[ch] \in 0..255
                            /\ pills[ch] \in 0..255

\* C23: within one frame callback the camera update, the animation of the
\* spawned objects, the colour-preview refresh and the creation-preview
\* refresh all work with one clock reading taken once for that frame.
C23_OneClockReadingPerFrame ==
    last.kind = "frame" =>
        /\ frameReads.display = frameReads.frame
        /\ frameReads.preview = frameReads.frame

\* what a spawned object is created with
CreatedWith(cube) ==
    <<cube.geometry, cube.size, cube.roundness, cube.color, cube.opacity,
      cube.x, cube.z, cube.baseY, cube.spawnTime>>

\* C24: the sequence of spawned objects only grows, and only by a primary
\* pointer-up that ends an active session with a resolved anchor, which appends
\* exactly one object; every other step (a pointer-up without a session, an
\* event of another button, a key event, a frame tick) leaves its length, and
\* no step removes an object or changes the size, roundness, colour, base
\* position or spawn time of an existing one.
C24_SpawnedOnlyGrowsByPointerUp ==
    [][/\ \A i \in 1..Len(spawnedCubes) :
             /\ i <= Len(spawnedCubes')
             /\ CreatedWith(spawnedCubes'[i]) = CreatedWith(spawnedCubes[i])
       /\ Len(spawnedCubes') =
             IF last'.kind = "mouseup" /\ last'.held /\ holdStartPosition # Null
             THEN Len(spawnedCubes) + 1
             ELSE Len(spawnedCubes)]_vars

\* a frame that animated a cube spawned earlier
C24_Witness ==
    /\ last.kind = "frame"
    /\ Len(spawnedCubes) > 0
    /\ spawnedCubes[1].cubeTime > 0

====
